---- MODULE Spec2Model ----
(***************************************************************************)
(* Model of package mflag (pkg/mflag/function.go, pkg/mflag/mflag.go):     *)
(* binding of a tagged configuration structure to the flags of a cobra     *)
(* command, the default-value parser and the flag-name converter.          *)
(*                                                                         *)
(* Text (Go string) is a sequence of one-character strings, so that the    *)
(* conversions are computed character by character as the code does.       *)
(***************************************************************************)
EXTENDS Integers, Sequences, FiniteSets, TLC

\* ------------------------------------------------------------------ bounds
\* longest identifier handed to toKebabCase in specification SpecName
MaxIdentLen == 5
\* longest default text over ParseAlphabet in specification SpecParse
MaxTextLen == 4
\* most fields of the top-level configuration structure in specification Spec
MaxFields == 2

\* ---------------------------------------------------------------- characters
UpperSeq == <<"A","B","C","D","E","F","G","H","I","J","K","L","M",
              "N","O","P","Q","R","S","T","U","V","W","X","Y","Z">>
LowerSeq == <<"a","b","c","d","e","f","g","h","i","j","k","l","m",
              "n","o","p","q","r","s","t","u","v","w","x","y","z">>
DigitSeq == <<"0","1","2","3","4","5","6","7","8","9">>

\* unicode.IsUpper / unicode.IsLower / unicode.ToLower on the ASCII range
IsUpper(c) == \E i \in 1..26 : UpperSeq[i] = c
IsLower(c) == \E i \in 1..26 : LowerSeq[i] = c
ToLower(c) == IF IsUpper(c) THEN LowerSeq[CHOOSE i \in 1..26 : UpperSeq[i] = c] ELSE c
\* one character of strings.ToUpper
ToUpperChar(c) == IF IsLower(c) THEN UpperSeq[CHOOSE i \in 1..26 : LowerSeq[i] = c] ELSE c
IsDigit(c) == \E i \in 1..10 : DigitSeq[i] = c
DigitVal(c) == (CHOOSE i \in 1..10 : DigitSeq[i] = c) - 1

\* all texts over alphabet A of length at most n
TextsUpTo(A, n) == UNION { [1..k -> A] : k \in 0..n }

\* strings.ToUpper
ToUpper(s) == [i \in 1..Len(s) |-> ToUpperChar(s[i])]
\* strings.ReplaceAll(s, "-", "_")
ReplaceDash(s) == [i \in 1..Len(s) |-> IF s[i] = "-" THEN "_" ELSE s[i]]

\* strings.Trim(s, "-")
RECURSIVE TrimDash(_)
TrimDash(s) ==
  IF s = <<>> THEN s
  ELSE IF Head(s) = "-" THEN TrimDash(Tail(s))
  ELSE IF s[Len(s)] = "-" THEN TrimDash(SubSeq(s, 1, Len(s) - 1))
  ELSE s

\* strings.TrimSpace (the only white space of the texts modelled is " ")
RECURSIVE TrimSpace(_)
TrimSpace(s) ==
  IF s = <<>> THEN s
  ELSE IF Head(s) = " " THEN TrimSpace(Tail(s))
  ELSE IF s[Len(s)] = " " THEN TrimSpace(SubSeq(s, 1, Len(s) - 1))
  ELSE s

\* ---------------------------------------------------------------- toKebabCase
\* Whether the code inserts '-' before the upper-case rune it is looking at:
\* s is the source string and result the output built so far. The code takes
\* nextIndex := len(result) and reads s[nextIndex+1] (0-based), i.e. the
\* 1-based position Len(result) + 2 of s.
InsertsHyphen(s, result) ==
  /\ Len(result) > 0
  /\ result[Len(result)] # "-"
  /\ Len(result) < Len(s) - 1
  /\ IsLower(s[Len(result) + 2])

\* the loop of toKebabCase from rune i (1-based) on
RECURSIVE KebabLoop(_, _, _, _)
KebabLoop(s, i, result, prevDash) ==
  IF i > Len(s) THEN result
  ELSE LET r == s[i] IN
    IF r \in {".", " ", "_"}
    THEN IF ~prevDash
         THEN KebabLoop(s, i + 1, Append(result, "-"), TRUE)
         ELSE KebabLoop(s, i + 1, result, prevDash)
    ELSE IF IsUpper(r)
    THEN KebabLoop(s, i + 1,
                   Append(IF InsertsHyphen(s, result) THEN Append(result, "-") ELSE result,
                          ToLower(r)),
                   FALSE)
    ELSE KebabLoop(s, i + 1, Append(result, r), FALSE)

toKebabCase(s) == TrimDash(KebabLoop(s, 1, <<>>, FALSE))

\* ------------------------------------------------------------------- values
\* A Go value of a field: n holds its numbers (a scalar: one; a slice of
\* numbers: its elements; a bool: 0 or 1; a duration: milliseconds), s its
\* strings (a string: one; a slice of strings: its elements).
NumVal(v) == [n |-> <<v>>, s |-> <<>>]
StrVal(t) == [n |-> <<>>, s |-> <<t>>]
NilVal == [n |-> <<>>, s |-> <<>>]

\* ------------------------------------------------------------------- types
\* A Go type: c is its name ("int8", "string", "Duration", "slice", "map",
\* "struct", "chan"), e the name of the element type of a slice or of a
\* string-keyed map.
Scalar(c) == [c |-> c, e |-> ""]
SliceOf(e) == [c |-> "slice", e |-> e]
MapOf(e) == [c |-> "map", e |-> e]

SignedNames == {"int", "int8", "int16", "int32", "int64"}
UnsignedNames == {"uint", "uint8", "uint16", "uint32", "uint64"}
FloatNames == {"float32", "float64"}

\* reflect.Type.Kind(): time.Duration is a named int64
Kind(t) == IF t.c = "Duration" THEN "int64" ELSE t.c
\* reflect.Type.Elem() of a slice or map
Elem(t) == Scalar(t.e)

\* the order of reflect.Kind, which the range tests of the slice branch use
KindOrd(k) ==
  CASE k = "bool" -> 1
    [] k = "int" -> 2 [] k = "int8" -> 3 [] k = "int16" -> 4
    [] k = "int32" -> 5 [] k = "int64" -> 6
    [] k = "uint" -> 7 [] k = "uint8" -> 8 [] k = "uint16" -> 9
    [] k = "uint32" -> 10 [] k = "uint64" -> 11
    [] k = "float32" -> 13 [] k = "float64" -> 14
    [] k = "chan" -> 18 [] k = "map" -> 21 [] k = "slice" -> 23
    [] k = "string" -> 24 [] k = "struct" -> 25

\* bit width of an integer type name (int and uint are 64 bits wide)
BitSize(c) ==
  CASE c \in {"int8", "uint8"} -> 8
    [] c \in {"int16", "uint16"} -> 16
    [] c \in {"int32", "uint32"} -> 32
    [] OTHER -> 64

\* reflect.Zero(fieldType)
Zero(t) ==
  IF Kind(t) \in SignedNames \cup UnsignedNames \cup FloatNames \cup {"bool"}
  THEN NumVal(0)
  ELSE IF Kind(t) = "string" THEN StrVal(<<>>)
  ELSE NilVal

\* ------------------------------------------------------------------ strconv
AllDigits(s) == s # <<>> /\ \A i \in 1..Len(s) : IsDigit(s[i])

RECURSIVE DecVal(_)
DecVal(s) == IF s = <<>> THEN 0
             ELSE 10 * DecVal(SubSeq(s, 1, Len(s) - 1)) + DigitVal(s[Len(s)])

\* largest magnitudes of a width. The texts of the model are shorter than ten
\* digits, so that a 32 or 64 bit value is never out of range.
MaxSigned(bits) == IF bits = 8 THEN 127 ELSE IF bits = 16 THEN 32767 ELSE 2147483647
MaxUnsigned(bits) == IF bits = 8 THEN 255 ELSE IF bits = 16 THEN 65535 ELSE 2147483647

\* strconv.ParseUint(s, 10, bits): digits only, range checked
ParseUint(s, bits) ==
  IF ~AllDigits(s) THEN [err |-> TRUE, v |-> 0]
  ELSE IF DecVal(s) > MaxUnsigned(bits) THEN [err |-> TRUE, v |-> MaxUnsigned(bits)]
  ELSE [err |-> FALSE, v |-> DecVal(s)]

\* strconv.ParseInt(s, 10, bits): optional sign, digits, range checked
ParseInt(s, bits) ==
  IF s = <<>> THEN [err |-> TRUE, v |-> 0]
  ELSE LET neg == Head(s) = "-"
           body == IF Head(s) \in {"+", "-"} THEN Tail(s) ELSE s
       IN IF ~AllDigits(body) THEN [err |-> TRUE, v |-> 0]
          ELSE IF ~neg /\ DecVal(body) > MaxSigned(bits)
               THEN [err |-> TRUE, v |-> MaxSigned(bits)]
          ELSE IF neg /\ DecVal(body) - 1 > MaxSigned(bits)
               THEN [err |-> TRUE, v |-> -MaxSigned(bits) - 1]
          ELSE [err |-> FALSE, v |-> IF neg THEN -DecVal(body) ELSE DecVal(body)]

\* strconv.ParseFloat on texts without '.', exponent, "inf", "nan" or a hex
\* prefix with exponent (none can be written in the alphabets of the model):
\* an optionally signed run of digits
ParseFloat(s) ==
  IF s = <<>> THEN [err |-> TRUE, v |-> 0]
  ELSE LET neg == Head(s) = "-"
           body == IF Head(s) \in {"+", "-"} THEN Tail(s) ELSE s
       IN IF ~AllDigits(body) THEN [err |-> TRUE, v |-> 0]
          ELSE [err |-> FALSE, v |-> IF neg THEN -DecVal(body) ELSE DecVal(body)]

\* strconv.ParseBool
ParseBool(s) ==
  IF s \in { <<"1">>, <<"t">>, <<"T">>, <<"T","R","U","E">>, <<"t","r","u","e">>,
             <<"T","r","u","e">> }
  THEN [err |-> FALSE, v |-> 1]
  ELSE IF s \in { <<"0">>, <<"f">>, <<"F">>, <<"F","A","L","S","E">>,
                  <<"f","a","l","s","e">>, <<"F","a","l","s","e">> }
  THEN [err |-> FALSE, v |-> 0]
  ELSE [err |-> TRUE, v |-> 0]

\* ------------------------------------------------------- time.ParseDuration
\* length of the longest prefix of s made of digits
RECURSIVE DigitPrefix(_)
DigitPrefix(s) == IF s # <<>> /\ IsDigit(Head(s)) THEN 1 + DigitPrefix(Tail(s)) ELSE 0
\* length of the unit at the head of s: up to the next digit or '.'
RECURSIVE UnitPrefix(_)
UnitPrefix(s) == IF s # <<>> /\ ~IsDigit(Head(s)) /\ Head(s) # "."
                 THEN 1 + UnitPrefix(Tail(s)) ELSE 0
\* the unit map, in milliseconds ("ns", "us" and fractions are not modelled:
\* the texts of the model have no 'n', 'u' or '.')
UnitMs(u) ==
  CASE u = <<"m","s">> -> 1
    [] u = <<"s">> -> 1000
    [] u = <<"m">> -> 60000
    [] u = <<"h">> -> 3600000
    [] OTHER -> 0

\* the loop of time.ParseDuration over ([0-9]+ unit)+, acc the sum so far
RECURSIVE DurationLoop(_, _)
DurationLoop(s, acc) ==
  IF s = <<>> THEN [err |-> FALSE, v |-> acc]
  ELSE LET nd == DigitPrefix(s)
           rest == SubSeq(s, nd + 1, Len(s))
           nu == UnitPrefix(rest)
           unit == SubSeq(rest, 1, nu)
       IN IF nd = 0 \/ nu = 0 \/ UnitMs(unit) = 0
          THEN [err |-> TRUE, v |-> 0]
          ELSE DurationLoop(SubSeq(rest, nu + 1, Len(rest)),
                            acc + DecVal(SubSeq(s, 1, nd)) * UnitMs(unit))

ParseDuration(s) ==
  LET neg == s # <<>> /\ Head(s) = "-"
      body == IF s # <<>> /\ Head(s) \in {"+", "-"} THEN Tail(s) ELSE s
  IN IF body = <<"0">> THEN [err |-> FALSE, v |-> 0]
     ELSE IF body = <<>> THEN [err |-> TRUE, v |-> 0]
     ELSE LET d == DurationLoop(body, 0)
          IN IF d.err THEN d ELSE [err |-> FALSE, v |-> IF neg THEN -d.v ELSE d.v]

\* ------------------------------------------------------------ strings.Split
\* position of the first sep in s, 0 when there is none
RECURSIVE IndexOf(_, _, _)
IndexOf(s, sep, i) == IF i > Len(s) THEN 0
                      ELSE IF s[i] = sep THEN i ELSE IndexOf(s, sep, i + 1)

\* strings.Split(s, sep) for a one-character sep
RECURSIVE Split(_, _)
Split(s, sep) ==
  LET i == IndexOf(s, sep, 1)
  IN IF i = 0 THEN <<s>>
     ELSE <<SubSeq(s, 1, i - 1)>> \o Split(SubSeq(s, i + 1, Len(s)), sep)

\* -------------------------------------------------------- parseDefaultValue
\* The result of a parse: err, and val, the value returned with a nil error.
Failed == [err |-> TRUE, val |-> NilVal]
Parsed(r) == IF r.err THEN Failed ELSE [err |-> FALSE, val |-> NumVal(r.v)]

RECURSIVE parseDefaultValue(_, _)
RECURSIVE SliceLoop(_, _, _, _)

\* SliceLoop with a bug: an element that does not parse is left out and the
\* rest of the slice is returned
SliceLoop_Partial(elemType, elements, i, acc) ==
  IF i > Len(elements) THEN [err |-> FALSE, val |-> acc]
  ELSE LET parsedElem == parseDefaultValue(elemType, TrimSpace(elements[i]))
       IN IF parsedElem.err THEN SliceLoop(elemType, elements, i + 1, acc)
          ELSE SliceLoop(elemType, elements, i + 1,
                         [n |-> acc.n \o parsedElem.val.n, s |-> acc.s \o parsedElem.val.s])

\* the loop of parseSliceDefaultValue from element i on, acc the slice so far
SliceLoop(elemType, elements, i, acc) ==
  IF i > Len(elements) THEN [err |-> FALSE, val |-> acc]
  ELSE LET parsedElem == parseDefaultValue(elemType, TrimSpace(elements[i]))
       IN IF parsedElem.err THEN Failed
          ELSE SliceLoop(elemType, elements, i + 1,
                         [n |-> acc.n \o parsedElem.val.n, s |-> acc.s \o parsedElem.val.s])

parseSliceDefaultValue(fieldType, defaultStr) ==
  SliceLoop(Elem(fieldType), Split(defaultStr, ","), 1, NilVal)

parseDefaultValue(fieldType, defaultStr) ==
  IF defaultStr = <<>> THEN [err |-> FALSE, val |-> Zero(fieldType)]
  ELSE IF fieldType.c = "Duration" THEN Parsed(ParseDuration(defaultStr))
  ELSE LET k == Kind(fieldType) IN
    CASE k = "bool" -> Parsed(ParseBool(defaultStr))
      [] k \in SignedNames -> Parsed(ParseInt(defaultStr, BitSize(k)))
      [] k \in UnsignedNames -> Parsed(ParseUint(defaultStr, BitSize(k)))
      [] k \in FloatNames -> Parsed(ParseFloat(defaultStr))
      [] k = "string" -> [err |-> FALSE, val |-> StrVal(defaultStr)]
      [] k = "slice" -> parseSliceDefaultValue(fieldType, defaultStr)
      [] OTHER -> Failed

\* ------------------------------------------------------ configuration structure
\* A field of the configuration structure (reflect.StructField with its
\* tags): name is its identifier, sub the fields of a nested structure.
\* The tags bind, group, required and note are only compared or passed on, and
\* are kept as strings; name, default and flag are texts.
Field(name, type, def) ==
  [name |-> name, type |-> type, bind |-> "", def |-> def, group |-> "",
   required |-> "", note |-> "", flag |-> <<>>, sub |-> <<>>]
Struct(name, sub) ==
  [name |-> name, type |-> Scalar("struct"), bind |-> "", def |-> <<>>, group |-> "",
   required |-> "", note |-> "", flag |-> <<>>, sub |-> sub]

VARIABLES
  pc,         \* position of the program; in Spec, of a main that calls New,
              \* AddCmd and Execute in turn: "main", "added", "exit", or "panic"
  flagsNil,   \* whether New was given a nil flags
  flagsType,  \* the fields of the structure Ts.flags points to, in declaration order
  flags,      \* the storage of the leaf fields of *Ts.flags, by path of identifiers
  env,        \* the process environment: the variables that are set, with their values
  cc,         \* the commands added to Ts.cc, each with its groups and its flag set
  stdout,     \* the diagnostics printed so far
  args,       \* the flags of the command line Execute parsed, as --name=value
  execErr,    \* what Execute returned: "" for nil
  ident,      \* SpecName: the identifier handed to toKebabCase
  kebab,      \* SpecName: what toKebabCase returned
  parseType,  \* SpecParse: the type of the field whose default is parsed
  parseText,  \* SpecParse: the default text
  parseOut    \* SpecParse: what parseDefaultValue returned

vars == <<pc, flagsNil, flagsType, flags, env, cc, stdout, args, execErr,
          ident, kebab, parseType, parseText, parseOut>>
nameVars == <<ident, kebab>>
parseVars == <<parseType, parseText, parseOut>>

\* os.Getenv: the empty text for a variable that is not set
Getenv(key) == IF key \in DOMAIN env THEN env[key] ELSE <<>>

\* reflect.Value.CanSet of a field of an addressable structure: it is exported
CanSet(f) == f.name # <<>> /\ IsUpper(f.name[1])

\* -------------------------------------------------------------- pflag.FlagSet
\* A flag set is a function from flag names to flags. A flag: path, the field
\* its value points to; prim, the registration primitive; changed, pflag's
\* Flag.Changed; appends, the 'changed' mark of a slice value (its next Set
\* appends); required, the annotation cobra.MarkFlagRequired sets.
NewFlag(path, prim, def, usage) ==
  [path |-> path, prim |-> prim, def |-> def, usage |-> usage,
   changed |-> FALSE, appends |-> FALSE, required |-> FALSE]

SlicePrims == {"IntSlice", "Int32Slice", "Int64Slice", "UintSlice", "Float64Slice",
               "BoolSlice", "StringSlice"}

\* the elements of a slice flag's argument: pflag splits on ',' and does not trim
RECURSIVE SetElems(_, _, _, _)
SetElems(prim, elements, i, acc) ==
  IF i > Len(elements) THEN [err |-> FALSE, val |-> acc]
  ELSE LET r == CASE prim \in {"IntSlice", "Int32Slice", "Int64Slice"} ->
                       Parsed(ParseInt(elements[i], IF prim = "Int32Slice" THEN 32 ELSE 64))
                  [] prim = "UintSlice" -> Parsed(ParseUint(elements[i], 64))
                  [] prim = "Float64Slice" -> Parsed(ParseFloat(elements[i]))
                  [] prim = "BoolSlice" -> Parsed(ParseBool(elements[i]))
                  [] prim = "StringSlice" -> [err |-> FALSE, val |-> StrVal(elements[i])]
       IN IF r.err THEN Failed
          ELSE SetElems(prim, elements, i + 1,
                        [n |-> acc.n \o r.val.n, s |-> acc.s \o r.val.s])

\* pflag's Value.Set of a primitive on text value: the parsed value, or err.
\* The scalar integer primitives parse with base 0; the texts of the model
\* have no leading '0' and no '_', for which base 0 is base 10. The map
\* primitives need "key=value", and the texts of the model have no '='.
ValueSet(prim, value) ==
  CASE prim = "Int" \/ prim = "Int64" -> Parsed(ParseInt(value, 64))
    [] prim = "Int8" -> Parsed(ParseInt(value, 8))
    [] prim = "Int16" -> Parsed(ParseInt(value, 16))
    [] prim = "Int32" -> Parsed(ParseInt(value, 32))
    [] prim = "Uint" \/ prim = "Uint64" -> Parsed(ParseUint(value, 64))
    [] prim = "Uint8" -> Parsed(ParseUint(value, 8))
    [] prim = "Uint16" -> Parsed(ParseUint(value, 16))
    [] prim = "Uint32" -> Parsed(ParseUint(value, 32))
    [] prim = "Float32" \/ prim = "Float64" -> Parsed(ParseFloat(value))
    [] prim = "Bool" -> Parsed(ParseBool(value))
    [] prim = "Duration" -> Parsed(ParseDuration(value))
    [] prim = "String" -> [err |-> FALSE, val |-> StrVal(value)]
    [] prim \in SlicePrims -> SetElems(prim, Split(value, ","), 1, NilVal)
    [] prim \in {"StringToString", "StringToInt"} -> Failed

\* The binding state threaded through bindFieldTag: fs the flag set of the
\* command, inst the storage of the fields, out the diagnostics, panicked
\* whether the call has panicked (the rest of the call is then not run).
\* A diagnostic: msg, with name the flag name it names and kind the kind.
Diag(msg, name, kind) == [msg |-> msg, name |-> name, kind |-> kind]

\* FlagSet.Changed(name): false for a flag that does not exist
Changed(fs, name) == name \in DOMAIN fs /\ fs[name].changed

\* FlagSet.Set(name, value) on binding state st: err "no such flag" or
\* "invalid argument", or the value written through the flag's pointer. A
\* slice value replaces what it holds on its first Set and appends afterwards.
FlagSetSet(st, name, value) ==
  IF name \notin DOMAIN st.fs THEN [st |-> st, err |-> "no such flag"]
  ELSE LET f == st.fs[name]
           r == ValueSet(f.prim, value)
           old == st.inst[f.path]
           new == IF f.prim \in SlicePrims /\ f.appends
                  THEN [n |-> old.n \o r.val.n, s |-> old.s \o r.val.s]
                  ELSE r.val
       IN IF r.err THEN [st |-> st, err |-> "invalid argument"]
          ELSE [st |-> [st EXCEPT !.inst[f.path] = new,
                                  !.fs[name].changed = TRUE,
                                  !.fs[name].appends = (f.prim \in SlicePrims)],
                err |-> ""]

\* cobra.Command.MarkFlagRequired(name): an error for a flag that does not exist
MarkFlagRequired(st, name) ==
  IF name \notin DOMAIN st.fs THEN [st |-> st, err |-> "no such flag"]
  ELSE [st |-> [st EXCEPT !.fs[name].required = TRUE], err |-> ""]

\* fieldVal.Set(default) followed by cmd.Flags().<prim>Var(&field, flagName,
\* default, usage): pflag panics when the name is already defined
Register(st, path, flagName, prim, def, usage) ==
  LET st1 == [st EXCEPT !.inst[path] = def]
  IN IF flagName \in DOMAIN st.fs THEN [st1 EXCEPT !.panicked = TRUE]
     ELSE [st1 EXCEPT !.fs = (flagName :> NewFlag(path, prim, def, usage)) @@ st.fs]

\* ----------------------------------------------------------------- bindFieldTag
\* The branch of the type switch a field of type t takes: the registration
\* primitive it is bound with; "recurse" for a nested structure; "none" for a
\* kind that is only logged; "panic" where the branch sets the field to a
\* []int or []uint it has built, which reflect.Value.Set refuses for a field
\* of another slice type.
SliceBranch(t) ==
  LET elemKind == Kind(Elem(t)) IN
  IF elemKind = "string" THEN "StringSlice"
  ELSE IF KindOrd(elemKind) >= KindOrd("int") /\ KindOrd(elemKind) <= KindOrd("int64")
       THEN IF t.e = "int" THEN "IntSlice" ELSE "panic"
  ELSE IF elemKind = "int32" THEN "Int32Slice"
  ELSE IF elemKind = "int64" THEN "Int64Slice"
  ELSE IF elemKind = "float64" THEN "Float64Slice"
  ELSE IF elemKind = "bool" THEN "BoolSlice"
  ELSE IF KindOrd(elemKind) >= KindOrd("uint") /\ KindOrd(elemKind) <= KindOrd("uint64")
       THEN IF t.e = "uint" THEN "UintSlice" ELSE "panic"
  ELSE "none"

MapBranch(t) ==
  LET elemKind == Kind(Elem(t)) IN
  IF elemKind = "string" THEN "StringToString"
  ELSE IF elemKind = "int" THEN "StringToInt"
  ELSE "none"

Branch(t) ==
  LET fieldKind == Kind(t) IN
  IF t.c = "Duration" THEN "Duration"
  ELSE IF fieldKind = "bool" THEN "Bool"
  ELSE IF t.c = "int" THEN "Int"
  ELSE IF t.c = "int8" THEN "Int8"
  ELSE IF t.c = "int16" THEN "Int16"
  ELSE IF t.c = "int32" THEN "Int32"
  ELSE IF t.c = "int64" THEN "Int64"
  ELSE IF t.c = "float32" THEN "Float32"
  ELSE IF t.c = "float64" THEN "Float64"
  ELSE IF t.c = "uint" THEN "Uint"
  ELSE IF t.c = "uint8" THEN "Uint8"
  ELSE IF t.c = "uint16" THEN "Uint16"
  ELSE IF t.c = "uint32" THEN "Uint32"
  ELSE IF t.c = "uint64" THEN "Uint64"
  ELSE IF fieldKind = "string" THEN "String"
  ELSE IF fieldKind = "slice" THEN SliceBranch(t)
  ELSE IF fieldKind = "map" THEN MapBranch(t)
  ELSE IF fieldKind = "struct" THEN "recurse"
  ELSE "none"

\* the name of a field's flag: its flag tag, or the kebab case of its
\* identifier joined to the prefix by a dot
FlagName(f, prefix) ==
  IF f.flag # <<>> THEN f.flag
  ELSE toKebabCase(IF prefix # <<>> THEN prefix \o <<".">> \o f.name ELSE f.name)

\* the name of the environment variable of a flag
EnvVar(flagName) ==
  LET envPrefix == IF Getenv(<<"P","R","E","F","I","X","_","A","C","F">>) = <<>>
                   THEN <<"A","C","F","_">>
                   ELSE Getenv(<<"P","R","E","F","I","X","_","A","C","F">>)
  IN envPrefix \o ToUpper(ReplaceDash(flagName))

\* EnvApplies with a bug: a variable that is set to the empty text counts as
\* set (os.LookupEnv in place of os.Getenv)
EnvApplies_Lookup(st, flagName) ==
  EnvVar(flagName) \in DOMAIN env /\ ~Changed(st.fs, flagName)

\* whether the environment value is applied to the flag
EnvApplies(st, flagName) ==
  Getenv(EnvVar(flagName)) # <<>> /\ ~Changed(st.fs, flagName)

\* the environment step of a field
EnvStep(st, flagName) ==
  IF EnvApplies(st, flagName)
  THEN LET r == FlagSetSet(st, flagName, Getenv(EnvVar(flagName)))
       IN IF r.err # ""
          THEN [st EXCEPT !.out = Append(st.out, Diag("set-env", flagName, ""))]
          ELSE r.st
  ELSE st

\* RequiredStep with a bug: the required tag is not acted on
RequiredStep_Unmarked(st, f, flagName) == st

\* the required step of a field
RequiredStep(st, f, flagName) ==
  IF f.required = "true"
  THEN LET r == MarkFlagRequired(st, flagName)
       IN IF r.err # ""
          THEN [st EXCEPT !.out = Append(st.out, Diag("mark-required", flagName, ""))]
          ELSE r.st
  ELSE st

\* Skipped with a bug: the bind tag is not looked at
Skipped_IgnoresBind(f, groupNames) ==
  \/ ~CanSet(f)
  \/ (f.group # "" /\ f.group \notin groupNames)

\* whether the loop skips the field before it computes a flag name
Skipped(f, groupNames) ==
  \/ ~CanSet(f)
  \/ f.bind = "false"
  \/ (f.group # "" /\ f.group \notin groupNames)

\* DefaultFailed with a bug: the loop does not continue with the next field
\* but goes on to the environment and required steps of this one
DefaultFailed_GoesOn(st, f, flagName) ==
  RequiredStep(EnvStep([st EXCEPT !.out = Append(st.out, Diag("default", flagName, ""))],
                       flagName), f, flagName)

\* a default that does not parse: the error is printed and the loop continues
\* with the next field
DefaultFailed(st, f, flagName) ==
  [st EXCEPT !.out = Append(st.out, Diag("default", flagName, ""))]

\* NestedPrefix with a bug: the recursion is handed the prefix of the
\* enclosing structure
NestedPrefix_Outer(prefix, flagName) == prefix

\* the prefix handed to the recursion into a nested structure: the flag name
\* of the structure's field
NestedPrefix(prefix, flagName) == flagName

RECURSIVE bindFieldTag(_, _, _, _, _)
RECURSIVE BindLoop(_, _, _, _, _, _)

\* one iteration of the loop of bindFieldTag: field f of the structure at path
BindField(st, f, path, prefix, groupNames) ==
  IF Skipped(f, groupNames) THEN st
  ELSE LET flagName == FlagName(f, prefix)
           d == parseDefaultValue(f.type, f.def)
           branch == Branch(f.type)
           here == Append(path, f.name)
       IN IF d.err
          THEN DefaultFailed(st, f, flagName)
          ELSE LET st1 ==
                     IF branch = "panic" THEN [st EXCEPT !.panicked = TRUE]
                     ELSE IF branch = "recurse"
                          THEN bindFieldTag(st, f.sub, here,
                                            NestedPrefix(prefix, flagName), groupNames)
                     ELSE IF branch = "none"
                          THEN [st EXCEPT !.out = Append(st.out, Diag("unsupported", <<>>,
                                   IF Kind(f.type) \in {"slice", "map"}
                                   THEN Kind(Elem(f.type)) ELSE Kind(f.type)))]
                     ELSE Register(st, here, flagName, branch, d.val, f.note)
               IN IF st1.panicked THEN st1
                  ELSE RequiredStep(EnvStep(st1, flagName), f, flagName)

\* the loop of bindFieldTag from field i on
BindLoop(st, fields, i, path, prefix, groupNames) ==
  IF i > Len(fields) \/ st.panicked THEN st
  ELSE BindLoop(BindField(st, fields[i], path, prefix, groupNames),
                fields, i + 1, path, prefix, groupNames)

\* bindFieldTag(cmd, val, prefix, groupNames): val the structure at path, whose
\* fields are fields
bindFieldTag(st, fields, path, prefix, groupNames) ==
  BindLoop(st, fields, 1, path, prefix, groupNames)

\* ---------------------------------------------------------------- Ts.AddCmd
NewState(fs) == [fs |-> fs, inst |-> flags, out |-> stdout, panicked |-> FALSE]

\* whether AddCmd binds the flags of the structure to the new command
Binds(group) == group # {} /\ ~flagsNil

\* Ts.AddCmd(runFunc, name, short, group...): a panic of bindFieldTag leaves
\* the call before the command is added
AddCmd(group) ==
  /\ pc = "main"
  /\ LET st == IF Binds(group)
               THEN bindFieldTag(NewState(<<>>), flagsType, <<>>, <<>>, group)
               ELSE NewState(<<>>)
     IN /\ flags' = st.inst
        /\ stdout' = st.out
        /\ IF st.panicked
           THEN pc' = "panic" /\ cc' = cc
           ELSE pc' = "added" /\ cc' = Append(cc, [group |-> group, fs |-> st.fs])
  /\ UNCHANGED <<flagsNil, flagsType, env, args, execErr, nameVars, parseVars>>

\* ---------------------------------------------------------------- Ts.Execute
\* pflag's parse of the arguments --name=value from argument i on: it stops
\* at the first flag that is unknown or whose value is refused
RECURSIVE ParseFlags(_, _, _)
ParseFlags(st, argv, i) ==
  IF i > Len(argv) THEN [st |-> st, err |-> ""]
  ELSE LET r == FlagSetSet(st, argv[i].name, argv[i].value)
       IN IF r.err = "no such flag" THEN [st |-> st, err |-> "unknown flag"]
          ELSE IF r.err # "" THEN [st |-> st, err |-> r.err]
          ELSE ParseFlags(r.st, argv, i + 1)

\* cobra's ValidateRequiredFlags: a required flag that is not changed is missing
MissingRequired(fs) == { name \in DOMAIN fs : fs[name].required /\ ~fs[name].changed }

\* Ts.Execute() with the command line selecting command i with flags argv
Execute(i, argv) ==
  /\ pc = "added"
  /\ i \in 1..Len(cc)
  /\ args' = argv
  /\ LET r == ParseFlags(NewState(cc[i].fs), argv, 1)
     IN /\ flags' = r.st.inst
        /\ cc' = [cc EXCEPT ![i].fs = r.st.fs]
        /\ execErr' = IF r.err # "" THEN r.err
                      ELSE IF MissingRequired(r.st.fs) # {} THEN "required flag(s) not set"
                      ELSE ""
  /\ pc' = "exit"
  /\ UNCHANGED <<flagsNil, flagsType, env, stdout, nameVars, parseVars>>

\* ------------------------------------------------------------------ inputs
\* texts of the inputs
tPort == <<"P","o","r","t">>
tLevel == <<"L","e","v","e","l">>
tRate == <<"R","a","t","e">>
tKey == <<"K","e","y">>
tToken == <<"T","o","k","e","n">>
tSecret == <<"S","e","c","r","e","t">>
tDb == <<"D","b">>
tTls == <<"T","l","s">>
tCert == <<"C","e","r","t">>
tWeb == <<"W","e","b">>
tAddr == <<"A","d","d","r">>
tOld == <<"O","l","d">>
tIds == <<"I","d","s">>
tOpts == <<"O","p","t","s">>
tWait == <<"W","a","i","t">>
tListen == <<"l","i","s","t","e","n">>
t10 == <<"1","0">>
t20 == <<"2","0">>
t30 == <<"3","0">>
t300 == <<"3","0","0">>
tX == <<"x">>
t1s == <<"1","s">>
tPREFIX == <<"P","R","E","F","I","X","_","A","C","F">>
tACFPORT == <<"A","C","F","_","P","O","R","T">>
tXPORT == <<"X","_","P","O","R","T">>
tACFDBPORT == <<"A","C","F","_","D","B","_","P","O","R","T">>
tport == <<"p","o","r","t">>
tdbport == <<"d","b","-","p","o","r","t">>
tkey == <<"k","e","y">>
tnosuch == <<"n","o","s","u","c","h">>

PortInt == Field(tPort, Scalar("int"), t10)

\* the fields a configuration structure of the model is made of, in the order
\* in which a structure declares them
Catalog == <<
  [Field(tKey, Scalar("string"), <<>>) EXCEPT !.required = "true"],
  [Field(tSecret, Scalar("int"), tX) EXCEPT !.bind = "false", !.required = "true"],
  PortInt,
  Field(tPort, SliceOf("int"), t10),
  [Field(tPort, Scalar("int8"), t300) EXCEPT !.required = "true"],
  Field(tLevel, SliceOf("int8"), <<>>),
  [Field(tRate, SliceOf("float32"), <<>>) EXCEPT !.required = "true"],
  [Field(tToken, Scalar("string"), <<>>) EXCEPT !.group = "admin"],
  Field(tWait, Scalar("Duration"), t1s),
  Field(tOpts, MapOf("string"), <<>>),
  Struct(tDb, <<PortInt,
                Struct(tTls, <<Field(tCert, Scalar("string"), <<>>)>>),
                Field(tIds, SliceOf("int"), <<"1", ",", "x">>)>>),
  [Struct(tWeb, <<Field(<<"h","i","d">>, Scalar("int"), tX),
                  PortInt,
                  [Field(tAddr, Scalar("string"), <<>>) EXCEPT !.flag = tListen],
                  Field(<<"C","h">>, Scalar("chan"), tX)>>)
     EXCEPT !.flag = <<"w", ".", "x">>],
  [Struct(tOld, <<PortInt>>) EXCEPT !.bind = "false"]
>>

\* the structures: at most MaxFields fields of the catalog, in its order and of
\* distinct names
Structures ==
  LET Picks == { ix \in UNION { [1..k -> 1..Len(Catalog)] : k \in 1..MaxFields } :
                   \A i, j \in 1..Len(ix) :
                     i < j => (ix[i] < ix[j] /\ Catalog[ix[i]].name # Catalog[ix[j]].name) }
  IN { [i \in 1..Len(ix) |-> Catalog[ix[i]]] : ix \in Picks }

\* the process environments
Environments == {
  <<>>,
  (tACFPORT :> t20),
  (tACFPORT :> <<>>),
  (tPREFIX :> <<"X","_">>) @@ (tXPORT :> t20) @@ (tACFPORT :> t30),
  (tPREFIX :> <<>>) @@ (tACFPORT :> tX),
  (tACFDBPORT :> t20)
}

\* the sets of groups a command is added with
Groups == { {}, {"ops"}, {"admin", "ops"} }

\* the command lines: the flags given, as --name=value
Arg(name, value) == [name |-> name, value |-> value]
CommandLines == {
  <<>>,
  <<Arg(tport, t30)>>,
  <<Arg(tport, tX)>>,
  <<Arg(tdbport, t30)>>,
  <<Arg(tkey, tX)>>,
  <<Arg(tnosuch, t30)>>
}

\* the paths of the leaf fields of a structure, each with its type
RECURSIVE Leaves(_, _)
Leaves(fields, path) ==
  UNION { IF fields[i].type.c = "struct"
          THEN Leaves(fields[i].sub, Append(path, fields[i].name))
          ELSE { [path |-> Append(path, fields[i].name), type |-> fields[i].type] }
        : i \in 1..Len(fields) }

\* a zero-valued instance of the structure
ZeroInstance(fields) ==
  LET L == Leaves(fields, <<>>)
  IN [p \in { l.path : l \in L } |-> Zero((CHOOSE l \in L : l.path = p).type)]

\* ------------------------------------------------------------ specifications
NoName == /\ ident = <<>> /\ kebab = <<>>
NoParse == /\ parseType = Scalar("int") /\ parseText = <<>>
           /\ parseOut = [err |-> FALSE, val |-> NilVal]
NoBind == /\ flagsNil = TRUE /\ flagsType = <<>> /\ flags = <<>> /\ env = <<>>
          /\ cc = <<>> /\ stdout = <<>> /\ args = <<>> /\ execErr = ""

\* New(flags), with flags nil or a pointer to a zero-valued structure
Init ==
  /\ pc = "main"
  /\ \/ flagsNil = TRUE /\ flagsType = <<>>
     \/ flagsNil = FALSE /\ flagsType \in Structures
  /\ flags = ZeroInstance(flagsType)
  /\ env \in Environments
  /\ cc = <<>>
  /\ stdout = <<>>
  /\ args = <<>>
  /\ execErr = ""
  /\ NoName /\ NoParse

Next ==
  \/ \E group \in Groups : AddCmd(group)
  \/ \E i \in 1..Len(cc), argv \in CommandLines : Execute(i, argv)

Spec == Init /\ [][Next]_vars

\* toKebabCase applied to every identifier over NameAlphabet
NameAlphabet == {"a", "B", "_", ".", "-"}

NameInit ==
  /\ pc = "name"
  /\ ident \in TextsUpTo(NameAlphabet, MaxIdentLen)
  /\ kebab = <<>>
  /\ NoParse /\ NoBind

Convert ==
  /\ pc = "name"
  /\ kebab' = toKebabCase(ident)
  /\ pc' = "named"
  /\ UNCHANGED <<ident, flagsNil, flagsType, flags, env, cc, stdout, args, execErr,
                 parseVars>>

SpecName == NameInit /\ [][Convert]_vars

\* parseDefaultValue applied to every text over ParseAlphabet and to the
\* texts of ParseExamples, for a field of each type of ParseTypes
ParseAlphabet == {"1", "3", "x", ",", " "}
ParseExamples == { <<"1",","," ","2",",","3">>, <<"1",",","x",",","3">>, t300,
                   <<"-","1","2","9">>, <<"1","s">>, <<"1","s","1">>, <<"1","h","3","s">> }
ParseTypes == { Scalar("int"), Scalar("int8"), Scalar("uint8"), Scalar("bool"),
                Scalar("float64"), Scalar("string"), Scalar("Duration"),
                SliceOf("int"), SliceOf("int8"), SliceOf("string"), SliceOf("Duration"),
                MapOf("string"), Scalar("struct"), Scalar("chan") }

ParseInit ==
  /\ pc = "parse"
  /\ parseType \in ParseTypes
  /\ parseText \in TextsUpTo(ParseAlphabet, MaxTextLen) \cup ParseExamples
  /\ parseOut = [err |-> FALSE, val |-> NilVal]
  /\ NoName /\ NoBind

Parse ==
  /\ pc = "parse"
  /\ parseOut' = parseDefaultValue(parseType, parseText)
  /\ pc' = "parsed"
  /\ UNCHANGED <<parseType, parseText, flagsNil, flagsType, flags, env, cc, stdout,
                 args, execErr, nameVars>>

SpecParse == ParseInit /\ [][Parse]_vars

\* ==================================================================== claims

\* ------------------------------------------------------------------------ C5
\* The camel-case rule as the claim states it: the decision for the upper-case
\* letter at position i of the source s is taken on s[i+1], its own neighbour.
RuleInsertsHyphen(s, i, result) ==
  /\ Len(result) > 0
  /\ result[Len(result)] # "-"
  /\ i < Len(s)
  /\ IsLower(s[i + 1])

RECURSIVE RuleLoop(_, _, _, _)
RuleLoop(s, i, result, prevDash) ==
  IF i > Len(s) THEN result
  ELSE LET r == s[i] IN
    IF r \in {".", " ", "_"}
    THEN IF ~prevDash
         THEN RuleLoop(s, i + 1, Append(result, "-"), TRUE)
         ELSE RuleLoop(s, i + 1, result, prevDash)
    ELSE IF IsUpper(r)
    THEN RuleLoop(s, i + 1,
                  Append(IF RuleInsertsHyphen(s, i, result) THEN Append(result, "-")
                         ELSE result, ToLower(r)),
                  FALSE)
    ELSE RuleLoop(s, i + 1, Append(result, r), FALSE)

\* C5: for every identifier, toKebabCase inserts a hyphen before an upper-case
\* letter exactly when the letter has a preceding character, is not already
\* preceded by a hyphen, and the character that follows it in the identifier
\* is lower-case, whatever hyphens were inserted or separators collapsed
\* before it.
C5_BoundaryOnSourceNeighbour ==
  pc = "named" => kebab = TrimDash(RuleLoop(ident, 1, <<>>, FALSE))

\* ------------------------------------------------------------------------ C6
\* the number of elements a text splits into: one more than its commas
Commas(s) == Cardinality({ i \in 1..Len(s) : s[i] = "," })

\* C6: the default of a slice field is parsed all or nothing: when every
\* comma-separated element, trimmed, parses as the element kind, the slice
\* holds the parsed elements in text order ("1, 2,3" gives [1,2,3]); when one
\* element fails ("1,x,3") the parse fails and returns no slice at all.
C6_SliceAllOrNothing ==
  (pc = "parsed" /\ parseType.c = "slice" /\ parseText # <<>>) =>
    LET elements == Split(parseText, ",")
        elem(i) == parseDefaultValue(Elem(parseType), TrimSpace(elements[i]))
        got == parseOut.val
    IN /\ Len(elements) = Commas(parseText) + 1
       /\ IF \E i \in 1..Len(elements) : elem(i).err
          THEN parseOut.err /\ got = NilVal
          ELSE /\ ~parseOut.err
               /\ Len(got.n) + Len(got.s) = Len(elements)
               /\ \A i \in 1..Len(got.n) : <<got.n[i]>> = elem(i).val.n
               /\ \A i \in 1..Len(got.s) : <<got.s[i]>> = elem(i).val.s
       /\ (parseType = SliceOf("int") /\ parseText = <<"1",","," ","2",",","3">>)
            => (~parseOut.err /\ got.n = <<1, 2, 3>>)
       /\ (parseType = SliceOf("int") /\ parseText = <<"1",",","x",",","3">>)
            => (parseOut.err /\ got = NilVal)

\* a slice default with one malformed element has been parsed and refused
C6_Witness ==
  /\ pc = "parsed"
  /\ parseType = SliceOf("int")
  /\ parseText = <<"1",",","x",",","3">>
  /\ parseOut = Failed

\* ------------------------------------------------- reading the bound command
\* the flag set and the groups of the command AddCmd has added
FS == cc[1].fs
Active == cc[1].group

\* whether a flag is registered for the field at path
RegisteredAt(path) == \E name \in DOMAIN FS : FS[name].path = path
\* whether a diagnostic msg naming flag name has been printed
Printed(msg, name) == \E k \in 1..Len(stdout) : stdout[k].msg = msg /\ stdout[k].name = name
\* whether the command line gives flag name
Given(name) == \E k \in 1..Len(args) : args[k].name = name
\* whether Execute got past the parse of the command line
ParsedArgs == pc = "exit" /\ execErr \notin {"unknown flag", "invalid argument"}

\* a field that has a registration primitive and whose default parses
Registrable(f) ==
  /\ Branch(f.type) \notin {"panic", "recurse", "none"}
  /\ ~parseDefaultValue(f.type, f.def).err

\* The fields of a structure at every depth, as the claims describe them: path
\* the identifiers down to the field, ip the positions down to it, ext its
\* external name (the flag override,
\* or the kebab case of the parent's external name joined to the identifier by
\* a dot), admitted whether the field and every structure above it is
\* exported, not tagged bind:"false", has no group or an active one, and every
\* structure above it has no default text.
RECURSIVE Nodes(_, _, _, _, _, _)
Nodes(fields, path, ip, parentExt, live, groups) ==
  UNION { LET f == fields[i]
              ext == IF f.flag # <<>> THEN f.flag
                     ELSE toKebabCase(IF parentExt = <<>> THEN f.name
                                      ELSE parentExt \o <<".">> \o f.name)
              admitted == /\ live
                          /\ IsUpper(f.name[1])
                          /\ f.bind # "false"
                          /\ (f.group = "" \/ f.group \in groups)
              node == [f |-> f, path |-> Append(path, f.name), ip |-> Append(ip, i),
                       ext |-> ext, admitted |-> admitted]
          IN IF f.type.c = "struct"
             THEN {node} \cup Nodes(f.sub, Append(path, f.name), Append(ip, i), ext,
                                    admitted /\ f.def = <<>>, groups)
             ELSE {node}
        : i \in 1..Len(fields) }

AllNodes(groups) == Nodes(flagsType, <<>>, <<>>, <<>>, TRUE, groups)

\* the name of the environment variable of a parameter, as the claims state
\* it: the prefix (PREFIX_ACF, or "ACF_" when that is unset or empty), then
\* the name upper-cased with every hyphen replaced by an underscore
ClaimPrefix == IF tPREFIX \in DOMAIN env /\ env[tPREFIX] # <<>> THEN env[tPREFIX]
               ELSE <<"A","C","F","_">>
ClaimKey(name) ==
  ClaimPrefix \o [i \in 1..Len(name) |-> IF name[i] = "-" THEN "_" ELSE ToUpperChar(name[i])]

\* ------------------------------------------------------------------------ C1
\* C1: for every leaf parameter with default text "10": after the command line
\* is parsed the field holds 30 when the explicit argument 30 was given,
\* whatever the environment; else 20 when its environment variable is "20";
\* else 10 when its environment variable is not set.
C1_ThreeTierPrecedence ==
  ParsedArgs =>
    \A name \in DOMAIN FS :
      FS[name].def = NumVal(10) =>
        LET field == flags[FS[name].path]
            explicit30 == \E k \in 1..Len(args) : args[k] = Arg(name, t30)
        IN /\ explicit30 => field = NumVal(30)
           /\ (~Given(name) /\ Getenv(ClaimKey(name)) = t20) => field = NumVal(20)
           /\ (~Given(name) /\ ClaimKey(name) \notin DOMAIN env) => field = NumVal(10)

\* ------------------------------------------------------------------------ C2
\* C2: when a command is added with a set of active groups, a bindable field
\* with a group tag is registered exactly when its group is active, and a
\* bindable field without a group tag is registered under every set of active
\* groups, the empty set included.
C2_GroupGating ==
  (pc = "added" /\ ~flagsNil) =>
    \A i \in 1..Len(flagsType) :
      LET f == flagsType[i]
      IN (CanSet(f) /\ f.bind # "false" /\ Registrable(f)) =>
           (RegisteredAt(<<f.name>>) <=> (f.group = "" \/ f.group \in Active))

\* ------------------------------------------------------------------------ C3
\* C3: binding never aborts: whatever the kinds of the fields of the
\* structure (slices of int8..int64 and uint8..uint64 included), bindFieldTag
\* returns normally.
C3_BindNeverAborts == pc # "panic"

\* whether path p lies at or under path q
Under(p, q) == Len(q) <= Len(p) /\ SubSeq(p, 1, Len(q)) = q

\* ------------------------------------------------------------------------ C4
\* a structure without the field at positions ip
RECURSIVE Remove(_, _)
Remove(fields, ip) ==
  IF Len(ip) = 1
  THEN SubSeq(fields, 1, ip[1] - 1) \o SubSeq(fields, ip[1] + 1, Len(fields))
  ELSE [fields EXCEPT ![ip[1]].sub = Remove(@, Tail(ip))]

\* the fields the loop reaches whose default text does not parse
FailingNodes ==
  { n \in AllNodes(Active) : n.admitted /\ parseDefaultValue(n.f.type, n.f.def).err }

\* C4: a field whose default does not parse keeps its zero value, gets no
\* parameter, no environment override and no required marking (only the
\* parse error is printed), and the flag set and the value of every other
\* field are those of binding the structure without that field.
C4_FailSoftDefault ==
  (pc = "added" /\ Active # {}) =>
    \A n \in FailingNodes :
      /\ \A p \in DOMAIN flags : Under(p, n.path) => flags[p] = ZeroInstance(flagsType)[p]
      /\ \A name \in DOMAIN FS : ~Under(FS[name].path, n.path)
      /\ Printed("default", n.ext)
      /\ ~Printed("set-env", n.ext)
      /\ ~Printed("mark-required", n.ext)
      /\ LET without == Remove(flagsType, n.ip)
             alone == bindFieldTag([fs |-> <<>>, inst |-> ZeroInstance(without),
                                    out |-> <<>>, panicked |-> FALSE],
                                   without, <<>>, <<>>, Active)
         IN /\ ~alone.panicked
            /\ alone.fs = FS
            /\ \A p \in DOMAIN alone.inst : alone.inst[p] = flags[p]

\* a required field with an out-of-range default and its environment variable
\* set has been passed over, and the field after it is bound
C4_Witness ==
  /\ pc = "added"
  /\ Len(flagsType) = 2
  /\ flagsType[1].type = Scalar("int8") /\ flagsType[1].def = t300
  /\ Getenv(tACFPORT) = t20
  /\ Printed("default", tport)
  /\ DOMAIN FS # {}

\* ------------------------------------------------------------------------ C7
\* the registered leaf fields tagged required:"true"
RequiredNodes ==
  { n \in AllNodes(Active) : n.admitted /\ Registrable(n.f) /\ n.f.required = "true" }

\* C7: the required tag is registered at bind time and evaluated at parse
\* time: binding never aborts because of it (an abort is that of a field whose
\* branch panics), the flag of a required leaf carries the constraint after
\* AddCmd, and when such a leaf has no default, no environment value and no
\* explicit argument, Execute fails the validation of the required flags.
C7_RequiredAtParseTime ==
  /\ pc = "panic" => \E n \in AllNodes({"admin", "ops"}) : Branch(n.f.type) = "panic"
  /\ (pc \in {"added", "exit"} /\ Active # {}) =>
       \A n \in RequiredNodes :
         /\ n.ext \in DOMAIN FS
         /\ FS[n.ext].required
         /\ pc = "added" => execErr = ""
         /\ (/\ ParsedArgs
             /\ n.f.def = <<>>
             /\ Getenv(ClaimKey(n.ext)) = <<>>
             /\ ~Given(n.ext)) => execErr = "required flag(s) not set"

\* a required leaf was left unset and Execute failed the validation, after a
\* bind in which the marking of another field was refused
C7_Witness ==
  /\ pc = "exit"
  /\ execErr = "required flag(s) not set"
  /\ tkey \in DOMAIN FS /\ FS[tkey].required /\ ~FS[tkey].changed
  /\ Printed("mark-required", <<"r","a","t","e">>)

\* ------------------------------------------------------------------------ C8
\* whether binding force-set, or tried to force-set, the parameter from its
\* environment variable
ForceSet(name) == FS[name].changed \/ Printed("set-env", name)

\* C8 as stated: a registered parameter is force-set exactly when its
\* environment variable is set in the process environment.
C8_ForceSetWhenSet ==
  pc = "added" => \A name \in DOMAIN FS : ForceSet(name) <=> ClaimKey(name) \in DOMAIN env

\* C8 as amended: a registered parameter is force-set exactly when its
\* environment variable has a non-empty value; the parameter then holds the
\* parsed value, or, when the value is refused, the refusal is printed, the
\* default stays and binding goes on.
C8_ForceSetWhenNonEmpty ==
  pc = "added" =>
    \A name \in DOMAIN FS :
      LET key == ClaimKey(name)
          value == IF key \in DOMAIN env THEN env[key] ELSE <<>>
          f == FS[name]
      IN /\ ForceSet(name) <=> value # <<>>
         /\ f.changed => (~ValueSet(f.prim, value).err
                          /\ flags[f.path] = ValueSet(f.prim, value).val)
         /\ Printed("set-env", name) => (~f.changed /\ flags[f.path] = f.def)

\* a nested parameter was force-set from the variable named after it, its
\* hyphen replaced by an underscore
C8_Witness ==
  /\ pc = "added"
  /\ tdbport \in DOMAIN FS
  /\ FS[tdbport].changed
  /\ env = (tACFDBPORT :> t20)
  /\ flags[FS[tdbport].path] = NumVal(20)

\* ------------------------------------------------------------------------ C9
\* C9: a field tagged bind:"false" is never registered, nor is any field of a
\* nested structure so tagged; its storage stays as it was, and no diagnostic
\* names it, whatever its default, group, required and flag tags.
C9_SkipSemantics ==
  \A n \in AllNodes({}) :
    n.f.bind = "false" =>
      /\ \A p \in DOMAIN flags : Under(p, n.path) => flags[p] = ZeroInstance(flagsType)[p]
      /\ \A k \in 1..Len(stdout) : ~Under(stdout[k].name, n.ext) \/ stdout[k].name = <<>>
      /\ cc # <<>> => \A name \in DOMAIN FS : ~Under(FS[name].path, n.path) /\ name # n.ext

\* a structure with a skipped field of malformed default has been bound, and
\* its other field registered
C9_Witness ==
  /\ pc = "added"
  /\ Len(flagsType) = 2
  /\ flagsType[1].bind = "false" /\ flagsType[1].def = tX
  /\ DOMAIN FS # {}
  /\ stdout = <<>>

\* ----------------------------------------------------------------------- C10
\* C10: a nested structure is never registered itself; each of its admitted
\* leaves that can be registered, at any depth, is registered exactly once,
\* under its external name: its flag override, or the kebab case of the
\* parent's external name joined to its identifier by a dot, which has no dot.
C10_NestedNames ==
  (pc = "added" /\ Active # {}) =>
    /\ \A name \in DOMAIN FS : FS[name].path \in DOMAIN flags
    /\ \A n \in AllNodes(Active) :
         /\ n.f.type.c = "struct" => ~RegisteredAt(n.path)
         /\ (n.admitted /\ Registrable(n.f)) =>
              { name \in DOMAIN FS : FS[name].path = n.path } = {n.ext}
         /\ (n.admitted /\ Registrable(n.f) /\ n.f.flag = <<>>) =>
              \A i \in 1..Len(n.ext) : n.ext[i] # "."

\* leaves of two nested structures, one two levels down, are registered under
\* the names of their own parents
C10_Witness ==
  /\ pc = "added"
  /\ tdbport \in DOMAIN FS
  /\ <<"d","b","-","t","l","s","-","c","e","r","t">> \in DOMAIN FS
  /\ <<"w","-","x","-","p","o","r","t">> \in DOMAIN FS
  /\ tListen \in DOMAIN FS

====
